---- MODULE Spec2Model ----
(***************************************************************************)
(* Model of the EPC retrieval pipeline: the retry-aware fetcher            *)
(* (SearchAfterPaginator._make_request) and the cursor paginator           *)
(* (SearchAfterPaginator.paginate) of src/src/api/pagination.py.           *)
(*                                                                         *)
(* Python values are modelled as follows.  None and JSON bodies are        *)
(* records tagged with their Python type; a dict is a function from its    *)
(* keys to its values; a list is a sequence; a string is a string.  The    *)
(* cursor local `search_after` holds either None or a string, so it is     *)
(* kept as a string with the distinguished value NoCursor standing for     *)
(* Python's None.                                                          *)
(***************************************************************************)
EXTENDS Integers, Sequences, FiniteSets, Bags, TLC

VARIABLES
    pc,                \* position of the session: idle, loop, request, process,
                       \* yielded (suspended at the yield), done
    params,            \* paginate: the caller's parameter mapping
    search_after_key,  \* paginate: the caller-specified cursor key
    search_after,      \* paginate: local search_after
    page_count,        \* paginate: local page_count
    total_records,     \* paginate: local total_records
    page_params,       \* paginate: local page_params, the mapping sent by the fetch
    attempt,           \* _make_request: loop variable attempt (0-based)
    outcomes,          \* replies met by the GET requests of the current fetch
    sleeps,            \* backoff sleeps (seconds) performed by the current fetch
    response,          \* paginate: what _make_request returned
    fetches,           \* page_params of every _make_request call of the session
    results,           \* return value of every _make_request call of the session
    pages,             \* pages yielded by the session
    raised,            \* an exception left paginate towards its caller
    fetch_raised,      \* an exception left _make_request towards paginate
    delays,            \* paginate: the delays between pages (ms) of the session
    norm_pc,           \* normalization check: input, done
    norm_in,           \* normalization check: the response
    norm_out,          \* normalization check: the normalized batch
    other,             \* a second, suspended session of the same paginator
    clock,             \* the cache: the current instant, in hours (UTC)
    tz,                \* the cache: offset of local time from UTC, in hours
    ticks,             \* the cache: number of times the clock has advanced
    ops,               \* the cache: number of steps made by its clients
    table,             \* the cache: rows of epc_certificates, in rowid order
    running,           \* the cache: the calls of the clients that are between
                       \* two of their SQL statements, each with what it has
                       \* read so far (a bag: two clients can be in the same
                       \* place of the same call)
    last               \* the cache: the latest operation and what it returned

vars == <<pc, params, search_after_key, search_after, page_count, total_records,
          page_params, attempt, outcomes, sleeps, response, fetches, results,
          pages, raised, fetch_raised, delays, norm_pc, norm_in, norm_out,
          other, clock, tz, ticks, ops, table, running, last>>

pagVars == <<pc, params, search_after_key, search_after, page_count, total_records,
             page_params, attempt, outcomes, sleeps, response, fetches, results,
             pages, raised, fetch_raised, delays>>

normVars == <<norm_pc, norm_in, norm_out>>

dbVars == <<clock, tz, ticks, ops, table, running, last>>

\* what the steps of a pagination session leave alone
nonPagVars == <<norm_pc, norm_in, norm_out, other, clock, tz, ticks, ops, table,
                running, last>>

-----------------------------------------------------------------------------
(* Program constants: Config                                               *)

RETRY_ATTEMPTS == 3
RETRY_DELAY == 1
PAGE_SIZE == 5000

-----------------------------------------------------------------------------
(* Bounds                                                                  *)

MaxFetches == 3    \* fetches of one session that the upstream service is followed for
MaxRows == 2       \* rows / records of a response in the normalization check
CounterCap == 2    \* value up to which page_count and total_records are counted
                   \* when the histories of a session are not recorded

-----------------------------------------------------------------------------
(* Python values                                                           *)

None == [type |-> "NoneType"]
Dict(items) == [type |-> "dict", items |-> items]
Number(v) == [type |-> "int", v |-> v]
NoCursor == "None"

\* no second generator of paginate exists
NoSession == [pc |-> "none"]

\* no cache operation has been carried out
NoOperation == [op |-> "none"]

\* no call of the cache is between two of its statements
NoCall == EmptyBag

Min(a, b) == IF a < b THEN a ELSE b

\* bool(v) of a fetch result: None, {} and 0 are falsy
Truthy(v) ==
    CASE v.type = "NoneType" -> FALSE
      [] v.type = "dict" -> DOMAIN v.items /= {}
      [] v.type = "int" -> v.v /= 0

\* bool(s) of the cursor: None and '' are falsy
TruthyCursorMutant(s) == s /= ""

TruthyCursor(s) == s /= NoCursor /\ s /= ""

\* dict(zip(columns, row)): pairs up to the shorter length, a later pair
\* replacing an earlier one with the same key
RECURSIVE ZipFrom(_, _, _, _)
ZipFrom(columns, row, i, acc) ==
    IF i > Min(Len(columns), Len(row)) THEN acc
    ELSE ZipFrom(columns, row, i + 1,
                 [k \in (DOMAIN acc) \cup {columns[i]} |->
                     IF k = columns[i] THEN row[i] ELSE acc[k]])

DictZipMutant(columns, row) ==
    [k \in {columns[i] : i \in 1..Min(Len(columns), Len(row))} |-> row[1]]

DictZip(columns, row) == ZipFrom(columns, row, 1, <<>>)

\* lines 35-44 of paginate: the record batch of a decoded dict response
NormalizeData(resp) ==
    LET items == resp.items IN
    IF "data" \in DOMAIN items THEN items["data"]
    ELSE IF "rows" \in DOMAIN items /\ "column-names" \in DOMAIN items THEN
        [j \in 1..Len(items["rows"]) |-> DictZip(items["column-names"], items["rows"][j])]
    ELSE <<>>

\* response.get('next-search-after')
GetCursor(resp) ==
    IF "next-search-after" \in DOMAIN resp.items
    THEN resp.items["next-search-after"] ELSE NoCursor

-----------------------------------------------------------------------------
(* _make_request                                                           *)

HttpResponse(status, body) == [kind |-> "response", status_code |-> status, json |-> body]
RequestException == [kind |-> "RequestException"]

\* lines 87 and 97: wait_time = (attempt + 1) * Config.RETRY_DELAY
WaitTimeMutant(a) == RETRY_DELAY

WaitTime(a) == (a + 1) * RETRY_DELAY

\* line 76: for attempt in range(Config.RETRY_ATTEMPTS) has a pass after pass a
RangeHasNextMutant(a) == a + 1 <= RETRY_ATTEMPTS

RangeHasNext(a) == a + 1 < RETRY_ATTEMPTS

\* lines 84-102: what one pass of the retry loop does with the reply to its GET.
\* ctl is "return" (with value) or "continue"; slept holds the sleep performed.
OnReplyMutantRetryOther(a, r) ==
    IF r.kind = "response" THEN
        IF r.status_code = 200 THEN
            [ctl |-> "return", value |-> r.json, slept |-> <<>>]
        ELSE
            [ctl |-> "continue", value |-> None, slept |-> <<WaitTime(a)>>]
    ELSE
        IF a < RETRY_ATTEMPTS - 1 THEN
            [ctl |-> "continue", value |-> None, slept |-> <<WaitTime(a)>>]
        ELSE
            [ctl |-> "return", value |-> None, slept |-> <<>>]

OnReplyMutantRaise(a, r) ==
    IF r.kind = "response" THEN
        IF r.status_code = 200 THEN
            [ctl |-> "return", value |-> r.json, slept |-> <<>>]
        ELSE IF r.status_code = 429 THEN
            [ctl |-> "continue", value |-> None, slept |-> <<WaitTime(a)>>]
        ELSE
            [ctl |-> "return", value |-> None, slept |-> <<>>]
    ELSE
        IF a < RETRY_ATTEMPTS - 1 THEN
            [ctl |-> "continue", value |-> None, slept |-> <<WaitTime(a)>>]
        ELSE
            [ctl |-> "raise", value |-> None, slept |-> <<>>]

OnReply(a, r) ==
    IF r.kind = "response" THEN
        IF r.status_code = 200 THEN
            [ctl |-> "return", value |-> r.json, slept |-> <<>>]
        ELSE IF r.status_code = 429 THEN
            [ctl |-> "continue", value |-> None, slept |-> <<WaitTime(a)>>]
        ELSE
            [ctl |-> "return", value |-> None, slept |-> <<>>]
    ELSE
        IF a < RETRY_ATTEMPTS - 1 THEN
            [ctl |-> "continue", value |-> None, slept |-> <<WaitTime(a)>>]
        ELSE
            [ctl |-> "return", value |-> None, slept |-> <<>>]

-----------------------------------------------------------------------------
(* paginate                                                                *)

\* lines 21-26: the mapping sent by one fetch, built on a copy of params
\* line 21: page_params = params.copy(); the mapping of the caller after the
\* writes of lines 24 and 26 to the copy, which then holds written
CallerParamsMutant(p, written) == written

CallerParams(p, written) == p

PageParamsMutant(p, cursor, key) ==
    LET withCursor == (key :> cursor) @@ p
    IN  ("size" :> PAGE_SIZE) @@ withCursor

PageParams(p, cursor, key) ==
    LET withCursor == IF TruthyCursor(cursor) THEN (key :> cursor) @@ p ELSE p
    IN  ("size" :> PAGE_SIZE) @@ withCursor

\* lines 55-60: the yielded page
PageMutant(data, n, total) ==
    [data |-> data, page |-> n, page_size |-> Len(data), total_retrieved |-> Len(data)]

Page(data, n, total) ==
    [data |-> data, page |-> n, page_size |-> Len(data), total_retrieved |-> total]

\* line 45: if not data
IsEmptyBatchMutant(data) == FALSE

IsEmptyBatch(data) == Len(data) = 0

\* line 69: except Exception catches the TypeError raised while processing
CaughtMutant(exc) == exc = "RequestException"

Caught(exc) == exc \in {"TypeError", "AttributeError", "RequestException"}

\* line 67: time.sleep(0.1), in milliseconds
PAGE_DELAY == 100

\* lines 62-67: the delay of a cycle that was resumed after its yield and has
\* read the cursor next from its response
DelayAfterMutant(next) == <<PAGE_DELAY>>

DelayAfter(next) == IF TruthyCursor(next) THEN <<PAGE_DELAY>> ELSE <<>>

\* lines 31-60: one cycle of the while loop after _make_request returned
\* resp, up to the yield.  ctl is "break", "raise" or "yield": at the yield
\* the generator is suspended and control is with the caller.
Cycle(resp, n, total) ==
    LET stop == [ctl |-> "break", yielded |-> <<>>,
                 page_count |-> n, total_records |-> total]
    IN
    IF ~Truthy(resp) THEN stop
    ELSE IF resp.type /= "dict" THEN
        \* 'data' in response raises TypeError
        IF Caught("TypeError") THEN stop ELSE [stop EXCEPT !.ctl = "raise"]
    ELSE
        LET data == NormalizeData(resp) IN
        IF IsEmptyBatch(data) THEN stop
        ELSE
            LET n2 == n + 1
                total2 == total + Len(data)
            IN  [ctl |-> "yield",
                 yielded |-> <<Page(data, n2, total2)>>,
                 page_count |-> n2, total_records |-> total2]

\* lines 62-67: what the generator does when the caller resumes it after the
\* yield: it reads the cursor from resp, and breaks or sleeps and loops.
\* ctl is "break" or "continue" (after time.sleep(0.1)).
AfterYield(resp) ==
    LET next == GetCursor(resp)
    IN  [ctl |-> IF TruthyCursor(next) THEN "continue" ELSE "break",
         search_after |-> next,
         delay |-> DelayAfter(next)]

-----------------------------------------------------------------------------
(* Inputs                                                                  *)

SeqsUpTo(S, n) == UNION {[1..m -> S] : m \in 0..n}

Columns == {"lmk-key", "postcode"}
Values == {"a", "b"}

recA == ("lmk-key" :> "a") @@ ("postcode" :> "a")
recB == ("lmk-key" :> "b") @@ ("postcode" :> "a")

\* the caller's parameter mappings, as built by EPCClient.search_*
ParamSets ==
    { ("postcode" :> "GU5 0AA"),
      ("local-authority" :> "Surrey") @@ ("property-type" :> "Other")
          @@ ("built-form" :> "Detached") }

CursorKeys == {"search-after", "from"}

\* decoded bodies of the HTTP 200 replies of the upstream service
Bodies ==
    { Dict(("data" :> <<recA>>) @@ ("next-search-after" :> "c1")),
      Dict(("data" :> <<recA, recB>>)),
      Dict(("column-names" :> <<"lmk-key", "postcode">>) @@ ("rows" :> <<<<"b", "a">>>>)
           @@ ("next-search-after" :> "c2")),
      Dict(("column-names" :> <<"lmk-key", "postcode">>)
           @@ ("rows" :> <<<<"a", "a">>, <<"b", "b">>>>)),
      Dict(("data" :> <<>>) @@ ("next-search-after" :> "c1")),
      Dict(("next-search-after" :> "c1")),
      Dict(("data" :> <<recB>>) @@ ("next-search-after" :> "")),
      Dict(<<>>),
      Number(5) }

OtherStatuses == {404, 500}

\* responses given to the normalization
NormRecords == UNION {[D -> Values] : D \in SUBSET Columns}

NormInputs ==
    LET colSeqs == SeqsUpTo(Columns, 2)
        rowLists == SeqsUpTo(SeqsUpTo(Values, 2), MaxRows)
        dataLists == SeqsUpTo(NormRecords, MaxRows)
    IN  {Dict(("column-names" :> c) @@ ("rows" :> r)) : c \in colSeqs, r \in rowLists}
        \cup {Dict(("data" :> d)) : d \in dataLists}
        \cup {Dict(("data" :> d) @@ ("column-names" :> <<"lmk-key">>) @@ ("rows" :> <<<<"a">>>>))
                : d \in SeqsUpTo(NormRecords, 1)}
        \cup {Dict(("rows" :> r)) : r \in SeqsUpTo(SeqsUpTo(Values, 2), 1)}
        \cup {Dict(("column-names" :> c)) : c \in colSeqs}
        \cup {Dict(("next-search-after" :> "c1")), Dict(("total" :> "7"))}

-----------------------------------------------------------------------------
(* The pagination session                                                  *)

Init ==
    /\ pc = "idle"
    /\ params = <<>>
    /\ search_after_key = "search-after"
    /\ search_after = NoCursor
    /\ page_count = 0
    /\ total_records = 0
    /\ page_params = <<>>
    /\ attempt = 0
    /\ outcomes = <<>>
    /\ sleeps = <<>>
    /\ response = None
    /\ fetches = <<>>
    /\ results = <<>>
    /\ pages = <<>>
    /\ raised = FALSE
    /\ fetch_raised = FALSE
    /\ delays = <<>>
    /\ norm_pc = "off"
    /\ norm_in = None
    /\ norm_out = <<>>
    /\ other = NoSession
    /\ clock = 0
    /\ tz = 0
    /\ ticks = 0
    /\ ops = 0
    /\ table = <<>>
    /\ running = NoCall
    /\ last = NoOperation

\* the locals and histories of the session that is running
Context ==
    [pc |-> pc, params |-> params, search_after_key |-> search_after_key,
     search_after |-> search_after, page_count |-> page_count,
     total_records |-> total_records, page_params |-> page_params,
     attempt |-> attempt, outcomes |-> outcomes, sleeps |-> sleeps,
     response |-> response, fetches |-> fetches, results |-> results,
     pages |-> pages, raised |-> raised, fetch_raised |-> fetch_raised,
     delays |-> delays]

\* lines 14-18: the locals of a new generator of paginate; they are locals of
\* the call, nothing is read from the paginator object
FreshSessionMutant(p, key) ==
    [pc |-> "loop", params |-> p, search_after_key |-> key,
     search_after |-> search_after, page_count |-> page_count,
     total_records |-> total_records, page_params |-> <<>>,
     attempt |-> 0, outcomes |-> <<>>, sleeps |-> <<>>,
     response |-> None, fetches |-> <<>>, results |-> <<>>,
     pages |-> <<>>, raised |-> FALSE, fetch_raised |-> FALSE,
     delays |-> <<>>]

FreshSession(p, key) ==
    [pc |-> "loop", params |-> p, search_after_key |-> key,
     search_after |-> NoCursor, page_count |-> 0,
     total_records |-> 0, page_params |-> <<>>,
     attempt |-> 0, outcomes |-> <<>>, sleeps |-> <<>>,
     response |-> None, fetches |-> <<>>, results |-> <<>>,
     pages |-> <<>>, raised |-> FALSE, fetch_raised |-> FALSE,
     delays |-> <<>>]

\* the generator with locals ctx is the one that runs
Run(ctx) ==
    /\ pc' = ctx.pc
    /\ params' = ctx.params
    /\ search_after_key' = ctx.search_after_key
    /\ search_after' = ctx.search_after
    /\ page_count' = ctx.page_count
    /\ total_records' = ctx.total_records
    /\ page_params' = ctx.page_params
    /\ attempt' = ctx.attempt
    /\ outcomes' = ctx.outcomes
    /\ sleeps' = ctx.sleeps
    /\ response' = ctx.response
    /\ fetches' = ctx.fetches
    /\ results' = ctx.results
    /\ pages' = ctx.pages
    /\ raised' = ctx.raised
    /\ fetch_raised' = ctx.fetch_raised
    /\ delays' = ctx.delays

\* paginate(endpoint, params, search_after_key): lines 14-18, a new session
Paginate(p, key) ==
    /\ pc \in {"idle", "done"}
    /\ Run(FreshSession(p, key))
    /\ UNCHANGED nonPagVars

\* lines 20-29: top of the while loop up to the call of _make_request.
\* keep tells whether the histories of the session are recorded.
BeginFetchStep(keep) ==
    /\ page_params' = PageParams(params, search_after, search_after_key)
    /\ params' = CallerParams(params, page_params')
    /\ fetches' = IF keep THEN Append(fetches, page_params') ELSE fetches
    /\ attempt' = 0
    /\ outcomes' = <<>>
    /\ sleeps' = <<>>
    /\ pc' = "request"
    /\ UNCHANGED <<search_after_key, search_after, page_count, total_records,
                   response, results, pages, raised, fetch_raised, delays>>
    /\ UNCHANGED nonPagVars

BeginFetch ==
    /\ pc = "loop"
    /\ Len(fetches) < MaxFetches
    /\ BeginFetchStep(TRUE)

\* lines 76-104: one pass of the retry loop, the GET being answered by r
HandleReplyStep(r, keep) ==
    /\ LET step == OnReply(attempt, r)
           more == RangeHasNext(attempt)
       IN  /\ outcomes' = Append(outcomes, r)
           /\ sleeps' = sleeps \o step.slept
           /\ IF step.ctl = "continue" /\ more THEN
                  /\ attempt' = attempt + 1
                  /\ pc' = "request"
                  /\ UNCHANGED <<response, results, raised, fetch_raised>>
              ELSE IF step.ctl = "raise" THEN
                  \* the exception reaches the except clause of paginate (line 69)
                  /\ fetch_raised' = TRUE
                  /\ raised' = ~Caught("RequestException")
                  /\ pc' = "done"
                  /\ UNCHANGED <<attempt, response, results>>
              ELSE
                  \* return of line 85, 93 or 102, or of line 104 after the last pass
                  /\ response' = IF step.ctl = "return" THEN step.value ELSE None
                  /\ results' = IF keep THEN Append(results, response') ELSE results
                  /\ pc' = "process"
                  /\ UNCHANGED <<attempt, raised, fetch_raised>>
    /\ UNCHANGED <<params, search_after_key, search_after, page_count, total_records,
                   page_params, fetches, pages, delays>>
    /\ UNCHANGED nonPagVars

HandleReply(r) == HandleReplyStep(r, TRUE)

\* session.get answers HTTP 200 with a decodable body (lines 84-85)
Get200(body) ==
    /\ pc = "request"
    /\ HandleReply(HttpResponse(200, body))

\* session.get answers HTTP 429 (lines 86-90)
Get429 ==
    /\ pc = "request"
    /\ HandleReply(HttpResponse(429, None))

\* session.get answers another status (lines 91-93)
GetOtherStatus(status) ==
    /\ pc = "request"
    /\ HandleReply(HttpResponse(status, None))

\* session.get, or response.json(), raises requests.RequestException (lines 95-102)
GetRequestException ==
    /\ pc = "request"
    /\ HandleReply(RequestException)

\* lines 31-60: the cycle once _make_request has returned, up to its break
\* or to its yield, where the generator is suspended
ApplyCycleStep(c, keep) ==
    /\ pages' = IF keep THEN pages \o c.yielded ELSE pages
    /\ page_count' = IF keep THEN c.page_count ELSE Min(c.page_count, CounterCap)
    /\ total_records' = IF keep THEN c.total_records ELSE Min(c.total_records, CounterCap)
    /\ raised' = (c.ctl = "raise")
    /\ pc' = IF c.ctl = "yield" THEN "yielded" ELSE "done"
    /\ UNCHANGED <<params, search_after_key, search_after, page_params, attempt,
                   outcomes, sleeps, response, fetches, results, fetch_raised, delays>>
    /\ UNCHANGED nonPagVars

ApplyCycle(c) == ApplyCycleStep(c, TRUE)

\* lines 62-67: the generator is resumed after its yield
ResumeStep(a, keep) ==
    /\ search_after' = a.search_after
    /\ delays' = IF keep THEN delays \o a.delay ELSE delays
    /\ pc' = IF a.ctl = "continue" THEN "loop" ELSE "done"
    /\ UNCHANGED <<params, search_after_key, page_count, total_records, page_params,
                   attempt, outcomes, sleeps, response, fetches, results, pages,
                   raised, fetch_raised>>
    /\ UNCHANGED nonPagVars

\* the cycle ends the session without a page (lines 31-33, 45-47, 69-71)
EndWithoutPage ==
    /\ pc = "process"
    /\ LET c == Cycle(response, page_count, total_records)
       IN  c.yielded = <<>> /\ ApplyCycle(c)

\* the cycle yields a page (lines 49-60): the generator is suspended at the
\* yield, and the caller holds the page
YieldPage ==
    /\ pc = "process"
    /\ LET c == Cycle(response, page_count, total_records)
       IN  c.yielded /= <<>> /\ ApplyCycle(c)

\* the caller asks for the next page; the response of the page just yielded
\* carries no cursor and the session ends (lines 62-65)
ResumeAndEnd ==
    /\ pc = "yielded"
    /\ LET a == AfterYield(response)
       IN  a.ctl = "break" /\ ResumeStep(a, TRUE)

\* the caller asks for the next page; the cursor is taken from the response,
\* the generator sleeps 100 ms and goes to the top of the loop (lines 62-67)
ResumeAndLoop ==
    /\ pc = "yielded"
    /\ LET a == AfterYield(response)
       IN  a.ctl = "continue" /\ ResumeStep(a, TRUE)

\* the caller closes the generator that is suspended at its yield:
\* GeneratorExit is raised at the yield, `except Exception` (line 69) does not
\* catch it, and the generator ends without reading the cursor or sleeping
Close ==
    /\ pc = "yielded"
    /\ pc' = "done"
    /\ UNCHANGED <<params, search_after_key, search_after, page_count, total_records,
                   page_params, attempt, outcomes, sleeps, response, fetches, results,
                   pages, raised, fetch_raised, delays>>
    /\ UNCHANGED nonPagVars

Next ==
    \/ \E p \in ParamSets, key \in CursorKeys : Paginate(p, key)
    \/ BeginFetch
    \/ \E body \in Bodies : Get200(body)
    \/ Get429
    \/ \E status \in OtherStatuses : GetOtherStatus(status)
    \/ GetRequestException
    \/ EndWithoutPage
    \/ YieldPage
    \/ ResumeAndEnd
    \/ ResumeAndLoop
    \/ Close

Spec == Init /\ [][Next]_vars

-----------------------------------------------------------------------------
(* Normalization of one response                                           *)

NormInit ==
    /\ pc = "idle"
    /\ params = <<>>
    /\ search_after_key = "search-after"
    /\ search_after = NoCursor
    /\ page_count = 0
    /\ total_records = 0
    /\ page_params = <<>>
    /\ attempt = 0
    /\ outcomes = <<>>
    /\ sleeps = <<>>
    /\ response = None
    /\ fetches = <<>>
    /\ results = <<>>
    /\ pages = <<>>
    /\ raised = FALSE
    /\ fetch_raised = FALSE
    /\ delays = <<>>
    /\ norm_pc = "input"
    /\ norm_in \in NormInputs
    /\ norm_out = <<>>
    /\ other = NoSession
    /\ clock = 0
    /\ tz = 0
    /\ ticks = 0
    /\ ops = 0
    /\ table = <<>>
    /\ running = NoCall
    /\ last = NoOperation

\* lines 35-44 applied to norm_in
Normalize ==
    /\ norm_pc = "input"
    /\ norm_out' = NormalizeData(norm_in)
    /\ norm_pc' = "done"
    /\ UNCHANGED norm_in
    /\ UNCHANGED pagVars
    /\ UNCHANGED <<other, dbVars>>

NormNext == Normalize

SpecNorm == NormInit /\ [][NormNext]_vars

-----------------------------------------------------------------------------
(* Properties of the fetcher                                               *)

Is200(r) == r.kind = "response" /\ r.status_code = 200
Is429(r) == r.kind = "response" /\ r.status_code = 429
IsOtherStatus(r) == r.kind = "response" /\ r.status_code \notin {200, 429}
IsNetworkError(r) == r.kind = "RequestException"
IsRetryable(r) == Is429(r) \/ IsNetworkError(r)

\* _make_request has returned to paginate
FetchReturned == pc \in {"process", "yielded", "loop", "done"} /\ outcomes /= <<>>

\* C1: a fetch call issues at most RETRY_ATTEMPTS GET requests whatever mix
\* of 429 responses and network errors it meets; no GET follows an HTTP 200
\* and the fetch returns the decoded body of that 200; after RETRY_ATTEMPTS
\* failed attempts it returns None and no exception leaves the fetch.
C1_BoundedAttempts ==
    /\ Len(outcomes) <= RETRY_ATTEMPTS
    /\ ~fetch_raised
    /\ \A i \in 1..Len(outcomes) :
          Is200(outcomes[i]) =>
              /\ i = Len(outcomes)
              /\ pc /= "request"
              /\ response = outcomes[i].json
    /\ (/\ Len(outcomes) = RETRY_ATTEMPTS
        /\ \A i \in 1..Len(outcomes) : IsRetryable(outcomes[i]))
          => pc /= "request" /\ response = None

\* a fetch has used all its attempts on a mix of 429s and network errors
C1_Witness ==
    /\ pc = "process"
    /\ Len(outcomes) = RETRY_ATTEMPTS
    /\ \E i, j \in 1..Len(outcomes) : Is429(outcomes[i]) /\ IsNetworkError(outcomes[j])
    /\ response = None

\* the records of a decoded response
RecordsOf(resp) == NormalizeData(resp)

\* C2: the sleep after the k-th attempt's 429 is k * RETRY_DELAY; and when
\* the first request of a session gets 429 and the retry gets 200 with a
\* non-empty batch and no cursor, the session ends having yielded exactly one
\* page with the records of the 200 response after one sleep of RETRY_DELAY.
C2_BackoffThenOnePage ==
    /\ \A k \in 1..Len(outcomes) :
          Is429(outcomes[k]) => Len(sleeps) >= k /\ sleeps[k] = k * RETRY_DELAY
    /\ (/\ Len(fetches) = 1
        /\ Len(outcomes) = 2
        /\ Is429(outcomes[1])
        /\ Is200(outcomes[2])
        /\ outcomes[2].json.type = "dict"
        /\ "data" \in DOMAIN outcomes[2].json.items
        /\ outcomes[2].json.items["data"] /= <<>>
        /\ "next-search-after" \notin DOMAIN outcomes[2].json.items)
          => /\ sleeps = <<1 * RETRY_DELAY>>
             /\ IF pc = "process" THEN pages = <<>>
                ELSE /\ pc \in {"yielded", "done"}
                     /\ Len(pages) = 1
                     /\ pages[1].data = outcomes[2].json.items["data"]

\* the session of C2 has ended with its single page
C2_Witness ==
    /\ pc = "done"
    /\ Len(fetches) = 1
    /\ Len(outcomes) = 2
    /\ Is429(outcomes[1])
    /\ Is200(outcomes[2])
    /\ sleeps = <<RETRY_DELAY>>
    /\ Len(pages) = 1
    /\ pages[1].data = <<recA, recB>>

\* C3: a status other than 200 and 429 ends the fetch at once with failure:
\* it is the last GET of the fetch, no sleep follows it, and None is returned,
\* even if attempts remain.
C3_OtherStatusFailsAtOnce ==
    \A i \in 1..Len(outcomes) :
        IsOtherStatus(outcomes[i]) =>
            /\ i = Len(outcomes)
            /\ pc /= "request"
            /\ response = None
            /\ Len(sleeps) = i - 1

\* a 429 was retried and the retry met a non-retryable status with an attempt left
C3_Witness ==
    /\ pc = "process"
    /\ Len(outcomes) = 2
    /\ Is429(outcomes[1])
    /\ IsOtherStatus(outcomes[2])
    /\ Len(outcomes) < RETRY_ATTEMPTS
    /\ response = None

\* C4: network errors are backed off like 429s: after any run of failed
\* attempts of a fetch, whether 429s or network errors, the sleeps performed
\* are those performed for as many 429s, one sleep of k * RETRY_DELAY after
\* the k-th failure, also when all RETRY_ATTEMPTS attempts fail.
C4_SameBackoffAs429 ==
    (\A i \in 1..Len(outcomes) : IsRetryable(outcomes[i]))
        => sleeps = [k \in 1..Len(outcomes) |-> k * RETRY_DELAY]

-----------------------------------------------------------------------------
(* Properties of the paginator                                             *)

\* resp is a decoded response with a non-empty batch
HasRecords(resp) ==
    /\ resp.type = "dict"
    /\ \/ "data" \in DOMAIN resp.items /\ resp.items["data"] /= <<>>
       \/ /\ "data" \notin DOMAIN resp.items
          /\ "rows" \in DOMAIN resp.items
          /\ "column-names" \in DOMAIN resp.items
          /\ resp.items["rows"] /= <<>>

\* resp is a decoded, non-empty response whose batch is empty
HasNoRecords(resp) ==
    /\ resp.type = "dict"
    /\ DOMAIN resp.items /= {}
    /\ ~HasRecords(resp)

HasCursorField(resp) == "next-search-after" \in DOMAIN resp.items

\* the cycle of the last fetch has been carried out, up to its yield or to
\* its end
CycleDone == pc /= "process" /\ results /= <<>> /\ Len(results) = Len(fetches)

\* C5: if the N-th response of a session carries a non-empty batch and no
\* continuation cursor, the session yields that batch as page N and ends
\* after exactly N fetches: it is suspended at the yield of page N or over.
C5_LastPageEndsSession ==
    LET n == Len(results) IN
    (CycleDone /\ HasRecords(results[n]) /\ ~HasCursorField(results[n]))
        => /\ pc \in {"yielded", "done"}
           /\ Len(fetches) = n
           /\ Len(pages) = n
           /\ pages[n].page = n
           /\ pages[n].data = RecordsOf(results[n])

\* a session has ended on its second response, which had records and no cursor
C5_Witness ==
    /\ pc = "done"
    /\ Len(results) = 2
    /\ HasRecords(results[2])
    /\ ~HasCursorField(results[2])
    /\ Len(pages) = 2

\* C6: a response whose batch is empty ends the session without a page for
\* that cycle and without a further fetch, even when it carries a cursor; an
\* empty first response gives zero pages after exactly one fetch.
C6_EmptyBatchEndsSession ==
    LET n == Len(results) IN
    (CycleDone /\ HasNoRecords(results[n]))
        => /\ pc = "done"
           /\ Len(fetches) = n
           /\ Len(pages) = n - 1
           /\ (n = 1 => pages = <<>>)

\* a session has ended on an empty first response that carried a cursor
C6_Witness ==
    /\ pc = "done"
    /\ Len(fetches) = 1
    /\ Len(results) = 1
    /\ HasNoRecords(results[1])
    /\ HasCursorField(results[1])
    /\ pages = <<>>

\* the fetch of cycle n failed: the failure sentinel, or a body whose
\* processing raises
FetchFailed(resp) == resp = None \/ resp.type \notin {"NoneType", "dict"}

\* C7: when the fetch of cycle k fails, paginate ends without raising, yields
\* no page for cycle k, and the k-1 pages yielded are those of the earlier
\* responses.
C7_FailureEndsQuietly ==
    LET n == Len(results) IN
    /\ ~raised
    /\ (CycleDone /\ FetchFailed(results[n]))
          => /\ pc = "done"
             /\ Len(pages) = n - 1
             /\ \A i \in 1..(n - 1) :
                   /\ pages[i].page = i
                   /\ pages[i].data = RecordsOf(results[i])

\* a session ended in its second cycle on a response whose processing raised,
\* after one page
C7_Witness ==
    /\ pc = "done"
    /\ Len(results) = 2
    /\ results[2].type = "int"
    /\ Len(pages) = 1
    /\ ~raised

RECURSIVE SumPageSizes(_, _)
SumPageSizes(ps, k) == IF k = 0 THEN 0 ELSE ps[k].page_size + SumPageSizes(ps, k - 1)

\* C8: the k-th yielded page has page = k, page_size = its number of records
\* (at least 1) and total_retrieved = the sum of page_size over pages 1..k, so
\* total_retrieved increases strictly along the session.
C8_PageCounters ==
    \A k \in 1..Len(pages) :
        /\ pages[k].page = k
        /\ pages[k].page_size = Len(pages[k].data)
        /\ pages[k].page_size >= 1
        /\ pages[k].total_retrieved = SumPageSizes(pages, k)
        /\ (k > 1 => pages[k].total_retrieved > pages[k - 1].total_retrieved)

\* a session has yielded three pages, not all of the same size
C8_Witness ==
    /\ Len(pages) = 3
    /\ pages[1].page_size /= pages[3].page_size
    /\ pages[3].total_retrieved = 4

\* C9: the first fetch of a session carries no cursor parameter; every later
\* fetch carries under the caller's key the next-search-after value of the
\* preceding response; every fetch carries the base parameters and
\* size = PAGE_SIZE, and nothing else.
C9_FetchParameters ==
    \A i \in 1..Len(fetches) :
        /\ DOMAIN fetches[i] =
              DOMAIN params \cup {"size"} \cup (IF i > 1 THEN {search_after_key} ELSE {})
        /\ \A k \in DOMAIN params : fetches[i][k] = params[k]
        /\ fetches[i]["size"] = PAGE_SIZE
        /\ i > 1 => /\ HasCursorField(results[i - 1])
                    /\ fetches[i][search_after_key] = results[i - 1].items["next-search-after"]

\* a session with a non-default cursor key has sent its third fetch, the
\* two responses before it carrying different cursors
C9_Witness ==
    /\ Len(fetches) = 3
    /\ search_after_key = "from"
    /\ fetches[2]["from"] /= fetches[3]["from"]

-----------------------------------------------------------------------------
(* Properties of the normalization                                         *)

IsColumnar(resp) ==
    /\ "data" \notin DOMAIN resp.items
    /\ "rows" \in DOMAIN resp.items
    /\ "column-names" \in DOMAIN resp.items

DistinctNames(c) == \A i, j \in 1..Len(c) : c[i] = c[j] => i = j

\* the mapping that pairs c[i] with row[i]
Pairing(c, row) ==
    LET m == Min(Len(c), Len(row)) IN
    [name \in {c[i] : i \in 1..m} |-> row[CHOOSE i \in 1..m : c[i] = name]]

\* C10: a response with (distinct) column-names C and rows R is normalized
\* to one mapping per row, in row order, pairing C[i] with row[i], which is
\* what a response with those mappings under 'data' is normalized to; a
\* response with neither shape is normalized to the empty batch.
C10_NormalizationEquivalence ==
    norm_pc = "done" =>
        /\ (IsColumnar(norm_in) /\ DistinctNames(norm_in.items["column-names"])) =>
              LET c == norm_in.items["column-names"]
                  r == norm_in.items["rows"]
                  expected == [j \in 1..Len(r) |-> Pairing(c, r[j])]
              IN  /\ Len(norm_out) = Len(r)
                  /\ \A j \in 1..Len(r) :
                        /\ norm_out[j] = Pairing(c, r[j])
                        /\ \A i \in 1..Min(Len(c), Len(r[j])) : norm_out[j][c[i]] = r[j][i]
                  /\ norm_out = NormalizeData(Dict(("data" :> expected)))
        /\ ("data" \in DOMAIN norm_in.items /\ ~IsColumnar(norm_in))
              => norm_out = norm_in.items["data"]
        /\ (~IsColumnar(norm_in) /\ "data" \notin DOMAIN norm_in.items)
              => norm_out = <<>>

\* a columnar response with two columns and two different full rows has been
\* normalized
C10_Witness ==
    /\ norm_pc = "done"
    /\ IsColumnar(norm_in)
    /\ norm_in.items["column-names"] = <<"lmk-key", "postcode">>
    /\ norm_in.items["rows"] = <<<<"a", "b">>, <<"b", "a">>>>
    /\ norm_out = <<("lmk-key" :> "a") @@ ("postcode" :> "b"),
                    ("lmk-key" :> "b") @@ ("postcode" :> "a")>>

-----------------------------------------------------------------------------
(* The pagination session followed without end                             *)
(*                                                                         *)
(* The steps are those of Spec, without the bound on the number of         *)
(* fetches.  The histories are not recorded and the two counters, which    *)
(* no branch of paginate reads, are counted up to CounterCap, so that the  *)
(* session has finitely many states.  paginate is sequential code and its   *)
(* caller, list() in EPCClient._search, takes every page and asks for the  *)
(* next: every step that can be taken is taken eventually (weak fairness), *)
(* while the upstream service is free in what it answers.                  *)

LiveBeginFetch ==
    /\ pc = "loop"
    /\ BeginFetchStep(FALSE)

LiveGet200(body) ==
    /\ pc = "request"
    /\ HandleReplyStep(HttpResponse(200, body), FALSE)

LiveGet429 ==
    /\ pc = "request"
    /\ HandleReplyStep(HttpResponse(429, None), FALSE)

LiveGetOtherStatus(status) ==
    /\ pc = "request"
    /\ HandleReplyStep(HttpResponse(status, None), FALSE)

LiveGetRequestException ==
    /\ pc = "request"
    /\ HandleReplyStep(RequestException, FALSE)

LiveEndWithoutPage ==
    /\ pc = "process"
    /\ LET c == Cycle(response, page_count, total_records)
       IN  c.yielded = <<>> /\ ApplyCycleStep(c, FALSE)

LiveYieldPage ==
    /\ pc = "process"
    /\ LET c == Cycle(response, page_count, total_records)
       IN  c.yielded /= <<>> /\ ApplyCycleStep(c, FALSE)

LiveResumeAndEnd ==
    /\ pc = "yielded"
    /\ LET a == AfterYield(response)
       IN  a.ctl = "break" /\ ResumeStep(a, FALSE)

LiveResumeAndLoop ==
    /\ pc = "yielded"
    /\ LET a == AfterYield(response)
       IN  a.ctl = "continue" /\ ResumeStep(a, FALSE)

LiveNext ==
    \/ \E p \in ParamSets, key \in CursorKeys : Paginate(p, key)
    \/ LiveBeginFetch
    \/ \E body \in Bodies : LiveGet200(body)
    \/ LiveGet429
    \/ \E status \in OtherStatuses : LiveGetOtherStatus(status)
    \/ LiveGetRequestException
    \/ LiveEndWithoutPage
    \/ LiveYieldPage
    \/ LiveResumeAndEnd
    \/ LiveResumeAndLoop

SpecLive == Init /\ [][LiveNext]_vars /\ WF_vars(LiveNext)

\* C11: a pagination session always terminates after finitely many fetches,
\* whatever the upstream service answers: a session that has entered its
\* loop eventually ends.
C11_SessionTerminates == (pc = "loop") ~> (pc = "done")

-----------------------------------------------------------------------------
(* Two sessions of one paginator                                           *)
(*                                                                         *)
(* paginate is a generator: a caller may call it again while an earlier    *)
(* generator is suspended at its yield, and advance the two in turn.       *)
(* `other` holds the generator that is not running.                        *)

\* the generator that is running, suspended at its yield (lines 55-60): its
\* locals, response and page_params included, which line 62 reads on
\* resumption; the call of _make_request has returned and its frame is gone
Suspended ==
    [Context EXCEPT !.attempt = 0, !.outcomes = <<>>, !.sleeps = <<>>]

\* paginate is called, and the new generator advanced, while the generator of
\* the earlier call is suspended at its yield
StartSecond(p, key) ==
    /\ pc = "yielded"
    /\ other = NoSession
    /\ other' = Suspended
    /\ Run(FreshSession(p, key))
    /\ UNCHANGED <<normVars, dbVars>>

\* the caller turns from the generator that has yielded to the other one,
\* which is suspended at its yield too
Switch ==
    /\ pc = "yielded"
    /\ other /= NoSession
    /\ other' = Suspended
    /\ Run(other)
    /\ UNCHANGED <<normVars, dbVars>>

\* the running generator has finished and the caller turns to the other one
ResumeOther ==
    /\ pc = "done"
    /\ other /= NoSession
    /\ other' = NoSession
    /\ Run(other)
    /\ UNCHANGED <<normVars, dbVars>>

\* fetches that a session is followed for when two sessions are followed
TwoFetches == MaxFetches - 1

\* lines 20-29, for one of two sessions
TwoBeginFetch ==
    /\ pc = "loop"
    /\ Len(fetches) < TwoFetches
    /\ BeginFetchStep(TRUE)

TwoNext ==
    \/ \E p \in ParamSets, key \in CursorKeys : Paginate(p, key)
    \/ TwoBeginFetch
    \/ \E body \in Bodies : Get200(body)
    \/ Get429
    \/ \E status \in OtherStatuses : GetOtherStatus(status)
    \/ GetRequestException
    \/ EndWithoutPage
    \/ YieldPage
    \/ ResumeAndEnd
    \/ ResumeAndLoop
    \/ Close
    \/ \E p \in ParamSets, key \in CursorKeys : StartSecond(p, key)
    \/ Switch
    \/ ResumeOther

SpecTwo == Init /\ [][TwoNext]_vars

\* the session with locals ctx started with cursor absent, page number 1 and
\* total 0, and its locals follow from its own fetches, responses and pages
OwnSession(ctx) ==
    /\ ctx.fetches = <<>> =>
          ctx.search_after = NoCursor /\ ctx.page_count = 0 /\ ctx.total_records = 0
    /\ ctx.fetches /= <<>> =>
          DOMAIN ctx.fetches[1] = DOMAIN ctx.params \cup {"size"}
    /\ \A i \in 2..Len(ctx.fetches) :
          ctx.fetches[i][ctx.search_after_key] = ctx.results[i - 1].items["next-search-after"]
    /\ ctx.page_count = Len(ctx.pages)
    /\ \A k \in 1..Len(ctx.pages) :
          /\ ctx.pages[k].page = k
          /\ ctx.pages[k].total_retrieved = SumPageSizes(ctx.pages, k)
    /\ ctx.total_records = SumPageSizes(ctx.pages, Len(ctx.pages))

\* C12: each call of paginate starts a new session with cursor absent, page
\* number 1 and total 0, whatever an earlier, finished or unfinished session
\* of the same paginator has reached: the running session and the suspended
\* one each follow from their own history only.
C12_SessionsIndependent ==
    /\ OwnSession(Context)
    /\ other /= NoSession => OwnSession(other)

\* a second session has yielded its page 1 while the first, suspended at the
\* yield of its page 2, holds another cursor and other parameters
C12_Witness ==
    /\ other /= NoSession
    /\ Len(other.pages) = 2
    /\ other.pc = "yielded"
    /\ TruthyCursor(other.search_after)
    /\ Len(pages) = 1
    /\ pages[1].page = 1
    /\ Len(fetches) = 2
    /\ params /= other.params
    /\ search_after /= other.search_after

-----------------------------------------------------------------------------
(* The cache: EPCDatabase of src/src/data/database.py                      *)
(*                                                                         *)
(* A DataFrame is a sequence of rows over the same columns, a value that   *)
(* is missing from a row being NaN.  Values are strings; NaN, Python's     *)
(* None and SQL's NULL are distinguished strings.  A text timestamp is a   *)
(* record of its date, the separator between date and time, and its time,  *)
(* compared as SQLite compares two TEXT values (memcmp).  The clock counts *)
(* hours: an operation happens at a whole hour, a moment after the         *)
(* operation before it, so a timestamp that an operation wrote is earlier  *)
(* than the now of any operation made later in the same hour.              *)

NaN == "NaN"
NoValue == "None"
NULL == "NULL"

\* Bounds of the cache model
MaxTicks == 1      \* times the clock advances
MaxTable == 3      \* rows of epc_certificates
MaxOps == 3        \* steps on the cache after which no call starts

StartClock == 72
TickHours == {23, 24}
TimeZones == {-1, 0, 1}
PropertyTypes == {"domestic", "non-domestic"}
AgeHours == {0, 1, 24}
AgeDays == {0, 1}
LookupIds == {"k1", "k2"}

\* CURRENT_TIMESTAMP and datetime('now', ...): 'YYYY-MM-DD HH:MM:SS' in UTC
SqlTimestamp(t) == [date |-> t \div 24, sep |-> " ", time |-> t % 24]

\* datetime.isoformat(): 'YYYY-MM-DDTHH:MM:SS.ffffff'
IsoFormat(t) == [date |-> t \div 24, sep |-> "T", time |-> t % 24]

\* code point of the separator
SepOrd(c) == IF c = " " THEN 32 ELSE 84

\* a < b for two TEXT values of SQLite: dates are of equal width, so the first
\* difference is in the date, else in the separator, else in the time
TextLess(a, b) ==
    \/ a.date < b.date
    \/ a.date = b.date /\ SepOrd(a.sep) < SepOrd(b.sep)
    \/ a.date = b.date /\ a.sep = b.sep /\ a.time < b.time

\* datetime.now(): the local time
LocalNow == clock + tz

\* lines 97 and 139: (datetime.now() - timedelta(hours=max_age_hours)).isoformat()
CutoffHours(hours) == IsoFormat(LocalNow - hours)

\* line 166: (datetime.now() - timedelta(days=max_age_days)).isoformat()
CutoffDays(days) == IsoFormat(LocalNow - 24 * days)

\* pd.DataFrame(records): every row over the union of the keys, NaN where missing
DataFrameOf(records) ==
    LET columns == UNION {DOMAIN records[i] : i \in 1..Len(records)}
    IN  [i \in 1..Len(records) |->
            [c \in columns |-> IF c \in DOMAIN records[i] THEN records[i][c] ELSE NaN]]

\* row.get(key) of a row of a DataFrame
RowGet(row, key) == IF key \in DOMAIN row THEN row[key] ELSE NoValue

\* bool(v): None and '' are falsy, NaN is truthy
TruthyValue(v) == v /= NoValue /\ v /= ""

\* line 69: row.get('lmk-key') or row.get('building-reference-number')
CertificateId(row) ==
    IF TruthyValue(RowGet(row, "lmk-key")) THEN RowGet(row, "lmk-key")
    ELSE RowGet(row, "building-reference-number")

\* sqlite3 binds a float NaN as NULL
SqlBind(v) == IF v = NaN THEN NULL ELSE v

\* json.dumps(row.to_dict()): the text encodes obj; it is strict JSON unless
\* a value is NaN, which json.dumps writes as the bare word NaN
JsonDumps(row) == [obj |-> row, strict |-> \A k \in DOMAIN row : row[k] /= NaN]

\* json.loads(text): Python also reads the bare word NaN
JsonLoads(text) == Dict(text.obj)

\* a text of the data column that is not JSON: json.loads raises
\* json.JSONDecodeError (lines 128 and 160) and json_extract fails with
\* "malformed JSON"
Malformed == [text |-> "{"]

\* json.loads(text) returns
Decodable(text) == text /= Malformed

\* json_extract(data, '$.key') of SQLite on a text it can parse
JsonExtract(text, key) ==
    IF key \in DOMAIN text.obj /\ text.obj[key] /= NaN THEN text.obj[key] ELSE NULL

\* lines 74-83: INSERT OR REPLACE of one row; the primary key conflicts only
\* on a certificate_id that is not NULL
InsertOrReplaceMutant(tbl, row) ==
    IF \E i \in 1..Len(tbl) : tbl[i].certificate_id = row.certificate_id
    THEN [i \in 1..Len(tbl) |->
             IF tbl[i].certificate_id = row.certificate_id
             THEN [row EXCEPT !.cached_at = tbl[i].cached_at] ELSE tbl[i]]
    ELSE Append(tbl, row)

InsertOrReplaceMutantTruncate(tbl, row) == <<row>>

InsertOrReplace(tbl, row) ==
    LET kept == SelectSeq(tbl, LAMBDA r :
                    row.certificate_id = NULL \/ r.certificate_id /= row.certificate_id)
    IN  Append(kept, row)

\* a value that json.dumps cannot write (bytes, a datetime, a numpy integer):
\* json.dumps raises TypeError
Opaque == "object"

\* line 82: json.dumps(row.to_dict()) returns
Serializable(row) == \A k \in DOMAIN row : row[k] /= Opaque

\* lines 67-89: the loop over the rows of the DataFrame, from row i on.
\* errors holds the rows whose cursor.execute raises sqlite3.Error; the
\* exception of a row, from json.dumps or from execute, is caught by line 87
\* and the loop goes on with the next row
RECURSIVE StoreRowsMutant(_, _, _, _, _, _)
StoreRowsMutant(tbl, frame, i, ptype, now, errors) ==
    IF i > Len(frame) THEN tbl
    ELSE
        LET id == CertificateId(frame[i])
            row == [certificate_id |-> SqlBind(id), property_type |-> ptype,
                    data |-> JsonDumps(frame[i]),
                    cached_at |-> SqlTimestamp(now), last_accessed |-> SqlTimestamp(now)]
        IN  IF ~TruthyValue(id) THEN StoreRowsMutant(tbl, frame, i + 1, ptype, now, errors)
            ELSE IF ~Serializable(frame[i]) \/ i \in errors THEN tbl
            ELSE StoreRowsMutant(InsertOrReplace(tbl, row), frame, i + 1, ptype, now, errors)

RECURSIVE StoreRows(_, _, _, _, _, _)
StoreRows(tbl, frame, i, ptype, now, errors) ==
    IF i > Len(frame) THEN tbl
    ELSE
        LET id == CertificateId(frame[i])
            row == [certificate_id |-> SqlBind(id), property_type |-> ptype,
                    data |-> JsonDumps(frame[i]),
                    cached_at |-> SqlTimestamp(now), last_accessed |-> SqlTimestamp(now)]
        IN  IF ~TruthyValue(id) THEN StoreRows(tbl, frame, i + 1, ptype, now, errors)
            ELSE IF ~Serializable(frame[i]) \/ i \in errors
                 THEN StoreRows(tbl, frame, i + 1, ptype, now, errors)
            ELSE StoreRows(InsertOrReplace(tbl, row), frame, i + 1, ptype, now, errors)

\* lines 102 and 145: cached_at > ?
IsFresh(row, hours) == TextLess(CutoffHours(hours), row.cached_at)

\* lines 106-116: the filter keys that reach the query
AllowListMutant == {"postcode", "local-authority", "uprn", "built-form"}

AllowList == {"postcode", "local-authority", "uprn"}

\* lines 100-119: the rows that pass property_type and cached_at
Candidates(tbl, ptype, hours) ==
    SelectSeq(tbl, LAMBDA r : r.property_type = ptype /\ IsFresh(r, hours))

\* lines 106-119: json_extract(data, "$.key") = ? for every allow-listed key
MatchesFilters(row, filters) ==
    \A k \in (DOMAIN filters) \cap AllowList :
        JsonExtract(row.data, k) /= NULL /\ JsonExtract(row.data, k) = filters[k]

\* lines 172: last_accessed < ?
IsExpired(row, days) == TextLess(row.last_accessed, CutoffDays(days))

\* lines 170-173: the rows that DELETE leaves
CleanupRowsMutant(tbl, days) ==
    IF \E i \in 1..Len(tbl) : IsExpired(tbl[i], days)
    THEN LET first == CHOOSE i \in 1..Len(tbl) :
                         /\ IsExpired(tbl[i], days)
                         /\ \A j \in 1..(i - 1) : ~IsExpired(tbl[j], days)
         IN  [i \in 1..(Len(tbl) - 1) |-> IF i < first THEN tbl[i] ELSE tbl[i + 1]]
    ELSE tbl

CleanupRows(tbl, days) == SelectSeq(tbl, LAMBDA r : ~IsExpired(r, days))

\* the number of rows of property type ptype
CountType(tbl, ptype) == Len(SelectSeq(tbl, LAMBDA r : r.property_type = ptype))

\* lines 202-205: cached_at > datetime('now', '-24 hours')
IsRecentMutant(row) == TextLess(CutoffHours(24), row.cached_at)

IsRecent(row) == TextLess(SqlTimestamp(clock - 24), row.cached_at)

\* The records that are stored, and the DataFrames made of them
certA == ("lmk-key" :> "k1") @@ ("postcode" :> "p1")
certA2 == ("lmk-key" :> "k1") @@ ("postcode" :> "p2")
certB == ("lmk-key" :> "k2") @@ ("postcode" :> "p1")
certRef == ("lmk-key" :> "") @@ ("building-reference-number" :> "k2") @@ ("postcode" :> "p2")
certNoKey == ("postcode" :> "p1")

\* The calls of store_certificates: a DataFrame and a property type
StoreInputs ==
    {<<DataFrameOf(<<>>), "domestic">>,
     <<DataFrameOf(<<certA>>), "domestic">>,
     <<DataFrameOf(<<certA2>>), "non-domestic">>,
     <<DataFrameOf(<<certB>>), "domestic">>,
     <<DataFrameOf(<<certRef>>), "non-domestic">>,
     <<DataFrameOf(<<certNoKey>>), "domestic">>,
     <<DataFrameOf(<<certA, certNoKey>>), "domestic">>}

\* The filters of get_certificates: none, a postcode, a postcode and a key
\* outside the allow-list
FilterSets ==
    {<<>>, ("postcode" :> "p1"), ("postcode" :> "p2") @@ ("built-form" :> "Detached")}

\* What an operation leaves in last for the operation after it
Summary(l) ==
    IF l.op = "cleanup"
    THEN [op |-> l.op, at |-> l.at, days |-> l.days, deleted |-> l.deleted]
    ELSE IF l.op = "search"
    THEN [op |-> l.op, caller |-> l.caller, endpoint |-> l.endpoint]
    ELSE [op |-> l.op]

DbInit ==
    /\ pc = "idle"
    /\ params = <<>>
    /\ search_after_key = "search-after"
    /\ search_after = NoCursor
    /\ page_count = 0
    /\ total_records = 0
    /\ page_params = <<>>
    /\ attempt = 0
    /\ outcomes = <<>>
    /\ sleeps = <<>>
    /\ response = None
    /\ fetches = <<>>
    /\ results = <<>>
    /\ pages = <<>>
    /\ raised = FALSE
    /\ fetch_raised = FALSE
    /\ delays = <<>>
    /\ norm_pc = "off"
    /\ norm_in = None
    /\ norm_out = <<>>
    /\ other = NoSession
    /\ clock = StartClock
    /\ tz \in TimeZones
    /\ ticks = 0
    /\ ops = 0
    /\ table = <<>>
    /\ running = NoCall
    /\ last = NoOperation

\* time passes, between two calls or between two statements of a call
Tick(d) ==
    /\ ticks < MaxTicks
    /\ clock' = clock + d
    /\ ticks' = ticks + 1
    /\ UNCHANGED <<tz, ops, table, last>>
    /\ UNCHANGED <<pagVars, normVars, other, running>>

\* lines 59-93: store_certificates(data, property_type), cursor.execute
\* raising sqlite3.Error on the rows errors.  No exception of a row leaves the
\* loop, so the call returns normally
StoreStep(frame, ptype, errors) ==
    LET stored == IF Len(frame) = 0 THEN table
                  ELSE StoreRows(table, frame, 1, ptype, clock, errors)
    IN  /\ Len(stored) <= MaxTable
        /\ table' = stored
        /\ last' = [op |-> "store", at |-> clock, before |-> table,
                    frame |-> frame, ptype |-> ptype, errors |-> errors,
                    raised |-> FALSE, prev |-> Summary(last)]
        /\ ops' = ops + 1
        /\ UNCHANGED <<clock, tz, ticks>>
        /\ UNCHANGED <<pagVars, normVars, other, running>>

\* store_certificates on a database that takes every write
Store(frame, ptype) ==
    /\ ops < MaxOps
    /\ StoreStep(frame, ptype, {})

\* lines 95-135: get_certificates(filters, property_type, max_age_hours).
\* json_extract meets the bare word NaN in the data of a candidate row: the
\* SQLite of the build either reads it (3.42 and later, json5) or fails with
\* "malformed JSON", and the OperationalError leaves get_certificates; on a
\* text that is not JSON it fails in every build.  A row that the query
\* returns and json.loads cannot read is skipped (lines 126-129)
Get(filters, ptype, hours) ==
    LET candidates == Candidates(table, ptype, hours)
        extracts == (DOMAIN filters) \cap AllowList /= {}
        malformed == /\ extracts
                     /\ \E i \in 1..Len(candidates) : ~Decodable(candidates[i].data)
        unreadable == /\ extracts
                      /\ \E i \in 1..Len(candidates) :
                            Decodable(candidates[i].data) /\ ~candidates[i].data.strict
        rows == SelectSeq(candidates, LAMBDA r : MatchesFilters(r, filters))
        decoded == SelectSeq(rows, LAMBDA r : Decodable(r.data))
        certificates == [i \in 1..Len(decoded) |-> JsonLoads(decoded[i].data).items]
    IN  /\ ops < MaxOps
        /\ \E json5 \in (IF malformed THEN {FALSE}
                         ELSE IF unreadable THEN BOOLEAN ELSE {TRUE}) :
             last' = [op |-> "get", at |-> clock, before |-> table,
                      filters |-> filters, ptype |-> ptype, hours |-> hours,
                      raised |-> ~json5,
                      rows |-> IF json5 THEN DataFrameOf(certificates) ELSE <<>>,
                      prev |-> Summary(last)]
        /\ ops' = ops + 1
        /\ UNCHANGED <<clock, tz, ticks, table>>
        /\ UNCHANGED <<pagVars, normVars, other, running>>

\* what get_certificate_by_id returns for the data of the row it selected
\* (lines 158-163): the record, or None when json.loads cannot read it
Loaded(data) == IF Decodable(data) THEN JsonLoads(data) ELSE None

\* lines 137-148: get_certificate_by_id(certificate_id, max_age_hours) up to
\* fetchone.  The SELECT is a statement of its own on a connection of its
\* own: it takes no lock that outlasts it, so the statements of other
\* clients can run before the UPDATE.  With no row selected the call returns
\* None (lines 150, 163)
GetById(id, hours) ==
    LET found == SelectSeq(table, LAMBDA r : r.certificate_id = id /\ IsFresh(r, hours))
    IN  /\ ops < MaxOps
        /\ IF Len(found) = 0
           THEN /\ last' = [op |-> "get_by_id", at |-> clock, before |-> table,
                            id |-> id, hours |-> hours, record |-> None,
                            prev |-> Summary(last)]
                /\ UNCHANGED running
           ELSE /\ running' = running (+) SetToBag({
                        [op |-> "get_by_id", at |-> clock, before |-> table,
                         id |-> id, hours |-> hours, data |-> found[1].data]})
                /\ UNCHANGED last
        /\ ops' = ops + 1
        /\ UNCHANGED <<clock, tz, ticks, table>>
        /\ UNCHANGED <<pagVars, normVars, other>>

\* lines 150-161 of the call c that selected a row: the UPDATE sets
\* last_accessed of the rows that have the id now (none, when the row was
\* deleted since the SELECT), the transaction commits, and the data that the
\* SELECT read is decoded and returned
GetByIdUpdate(c) ==
    /\ BagIn(c, running)
    /\ c.op = "get_by_id"
    /\ table' = [i \in 1..Len(table) |->
                    IF table[i].certificate_id = c.id
                    THEN [table[i] EXCEPT !.last_accessed = SqlTimestamp(clock)]
                    ELSE table[i]]
    /\ last' = [op |-> "get_by_id", at |-> c.at, before |-> c.before,
                id |-> c.id, hours |-> c.hours,
                record |-> Loaded(c.data), prev |-> Summary(last)]
    /\ running' = running (-) SetToBag({c})
    /\ ops' = ops + 1
    /\ UNCHANGED <<clock, tz, ticks>>
    /\ UNCHANGED <<pagVars, normVars, other>>

\* lines 165-186: cleanup_old_data(max_age_days); the count of deleted rows
\* is logged, the function returns nothing
Cleanup(days) ==
    /\ ops < MaxOps
    /\ table' = CleanupRows(table, days)
    /\ last' = [op |-> "cleanup", at |-> clock, before |-> table, days |-> days,
                deleted |-> Len(table) - Len(CleanupRows(table, days)),
                result |-> None, prev |-> Summary(last)]
    /\ ops' = ops + 1
    /\ UNCHANGED <<clock, tz, ticks>>
    /\ UNCHANGED <<pagVars, normVars, other, running>>

\* lines 188-193: get_cache_stats() up to the first fetchone, SELECT
\* COUNT(*).  Each of the three SELECTs is a statement of its own, and the
\* statements of other clients can run between two of them.  same_table
\* tells whether every SELECT of the call so far has read the table that the
\* first one read
Stats ==
    /\ ops < MaxOps
    /\ running' = running (+) SetToBag({
            [op |-> "stats", line |-> 195, before |-> table,
             total |-> Len(table), same_table |-> TRUE]})
    /\ ops' = ops + 1
    /\ UNCHANGED <<clock, tz, ticks, table, last>>
    /\ UNCHANGED <<pagVars, normVars, other>>

\* lines 195-200 of the call c: the second SELECT, the count of each property
\* type
StatsByType(c) ==
    /\ BagIn(c, running)
    /\ c.op = "stats"
    /\ c.line = 195
    /\ running' = (running (-) SetToBag({c})) (+) SetToBag({
            [op |-> "stats", line |-> 202, before |-> c.before, total |-> c.total,
             same_table |-> c.same_table /\ table = c.before,
             by_type |-> [t \in {table[i].property_type : i \in 1..Len(table)} |->
                             CountType(table, t)]]})
    /\ ops' = ops + 1
    /\ UNCHANGED <<clock, tz, ticks, table, last>>
    /\ UNCHANGED <<pagVars, normVars, other>>

\* lines 202-213 of the call c: the third SELECT, the count of the rows
\* cached in the 24 hours before now, and the dictionary that is returned
StatsRecent(c) ==
    /\ BagIn(c, running)
    /\ c.op = "stats"
    /\ c.line = 202
    /\ last' = [op |-> "stats", at |-> clock, before |-> c.before,
                total |-> c.total, by_type |-> c.by_type,
                recent |-> Len(SelectSeq(table, IsRecent)),
                same_table |-> c.same_table /\ table = c.before,
                prev |-> Summary(last)]
    /\ running' = running (-) SetToBag({c})
    /\ ops' = ops + 1
    /\ UNCHANGED <<clock, tz, ticks, table>>
    /\ UNCHANGED <<pagVars, normVars, other>>

DbNext ==
    \/ \E d \in TickHours : Tick(d)
    \/ \E call \in StoreInputs : Store(call[1], call[2])
    \/ \E filters \in FilterSets, ptype \in PropertyTypes, hours \in AgeHours :
          Get(filters, ptype, hours)
    \/ \E id \in LookupIds, hours \in AgeHours : GetById(id, hours)
    \/ \E c \in BagToSet(running) : GetByIdUpdate(c)
    \/ \E days \in AgeDays : Cleanup(days)

SpecDb == DbInit /\ [][DbNext]_vars

\* The clients of the cache among which one asks for the statistics: every
\* operation of EPCDatabase, the bulk read with its default filters and age
StatsNext ==
    \/ \E d \in TickHours : Tick(d)
    \/ \E call \in StoreInputs : Store(call[1], call[2])
    \/ \E ptype \in PropertyTypes : Get(<<>>, ptype, 24)
    \/ \E id \in LookupIds, hours \in AgeHours : GetById(id, hours)
    \/ \E c \in BagToSet(running) : GetByIdUpdate(c)
    \/ \E days \in AgeDays : Cleanup(days)
    \/ Stats
    \/ \E c \in BagToSet(running) : StatsByType(c)
    \/ \E c \in BagToSet(running) : StatsRecent(c)

SpecStats == DbInit /\ [][StatsNext]_vars

-----------------------------------------------------------------------------
(* Claims about the cache                                                  *)

\* the instant, in hours, that a stored timestamp denotes
Instant(ts) == ts.date * 24 + ts.time

\* the rows of tbl whose certificate_id is id
RowsWithId(tbl, id) == SelectSeq(tbl, LAMBDA r : r.certificate_id = id)

\* the stored timestamp ts is earlier than the now of an operation made at
\* hour at, minus window hours
EarlierThan(ts, at, window) == Instant(ts) <= at - window

\* row was cached less than hours before the operation made at hour at
CachedWithin(row, at, hours) == ~EarlierThan(row.cached_at, at, hours)

\* the stored record of row has the filter value under every allow-listed key
RecordMatches(row, filters) ==
    \A k \in (DOMAIN filters) \cap AllowList :
        k \in DOMAIN row.data.obj /\ row.data.obj[k] = filters[k]

\* the set of the elements of a sequence
Range(seq) == {seq[i] : i \in 1..Len(seq)}

\* C13: a get_by_id of an id whose entry was stored less than max_age_hours
\* before the lookup returns exactly the record that was stored
C13_StoreThenLookup ==
    (last.op = "get_by_id") =>
        \A i \in 1..Len(last.before) :
            (/\ last.before[i].certificate_id = last.id
             /\ last.at - Instant(last.before[i].cached_at) < last.hours)
            => last.record = Dict(last.before[i].data.obj)

\* the rows of the stored DataFrame that replace an entry cached before
Restored(i) ==
    /\ TruthyValue(CertificateId(last.frame[i]))
    /\ Len(RowsWithId(last.before, CertificateId(last.frame[i]))) > 0
    /\ \A j \in (i + 1)..Len(last.frame) :
           CertificateId(last.frame[j]) /= CertificateId(last.frame[i])

\* C14: after a store of a record whose certificate_id was cached already
\* there is one entry for the id, with the payload and property_type of this
\* store and cached_at = last_accessed = the time of this store; a get_by_id
\* that returns a record returns the payload of the one entry that the cache
\* held for the id when the lookup read it
C14_RestoreReplaces ==
    /\ (last.op = "store") =>
           \A i \in 1..Len(last.frame) :
               Restored(i) =>
                   RowsWithId(table, CertificateId(last.frame[i])) =
                       << [certificate_id |-> CertificateId(last.frame[i]),
                           property_type |-> last.ptype,
                           data |-> JsonDumps(last.frame[i]),
                           cached_at |-> SqlTimestamp(last.at),
                           last_accessed |-> SqlTimestamp(last.at)] >>
    /\ (last.op = "get_by_id" /\ last.record /= None) =>
           /\ Len(RowsWithId(last.before, last.id)) = 1
           /\ last.record = Dict(RowsWithId(last.before, last.id)[1].data.obj)

\* a store has replaced an entry of another payload, property type and time
C14_Witness ==
    /\ last.op = "store"
    /\ \E i \in 1..Len(last.frame) :
           /\ Restored(i)
           /\ LET old == RowsWithId(last.before, CertificateId(last.frame[i]))[1]
              IN  /\ old.data /= JsonDumps(last.frame[i])
                  /\ old.property_type /= last.ptype
                  /\ old.cached_at /= SqlTimestamp(last.at)

\* C15: no two cache entries have the same certificate_id
C15_UniqueIds ==
    \A i, j \in 1..Len(table) :
        table[i].certificate_id = table[j].certificate_id => i = j

\* what get is said to return: the entries of the property type, cached
\* within max_age_hours of now, whose record has the filter values
Expected(tbl, filters, ptype, at, hours) ==
    SelectSeq(tbl, LAMBDA r : /\ r.property_type = ptype
                              /\ CachedWithin(r, at, hours)
                              /\ RecordMatches(r, filters))

\* C16: get returns exactly the entries of the property type that were
\* cached within max_age_hours of now and whose record has the filter values
C16_GetReturnsExactly ==
    (last.op = "get") =>
        LET expected == Expected(last.before, last.filters, last.ptype,
                                 last.at, last.hours)
        IN  /\ ~last.raised
            /\ Len(last.rows) = Len(expected)
            /\ Range(last.rows) =
                   Range(DataFrameOf([i \in 1..Len(expected) |-> expected[i].data.obj]))

\* C17: with max_age_hours = 0, get returns no entry and get_by_id returns
\* absent
C17_ZeroWindowSeesNothing ==
    /\ (last.op = "get" /\ last.hours = 0 /\ ~last.raised) => last.rows = <<>>
    /\ (last.op = "get_by_id" /\ last.hours = 0) => last.record = None

\* C18: get_by_id returns the record and sets the entry's last_accessed to
\* now exactly when an entry of the id was cached within the window, and
\* changes nothing else; otherwise it returns absent and changes nothing
C18_LookupHitsExactlyWhenFresh ==
    (last.op = "get_by_id") =>
        IF \E i \in 1..Len(last.before) :
               /\ last.before[i].certificate_id = last.id
               /\ CachedWithin(last.before[i], last.at, last.hours)
        THEN /\ \E i \in 1..Len(last.before) :
                    /\ last.before[i].certificate_id = last.id
                    /\ last.record = Dict(last.before[i].data.obj)
             /\ table = [i \in 1..Len(last.before) |->
                            IF last.before[i].certificate_id = last.id
                            THEN [last.before[i] EXCEPT
                                     !.last_accessed = SqlTimestamp(last.at)]
                            ELSE last.before[i]]
        ELSE /\ last.record = None
             /\ table = last.before

\* C19: cleanup(D) deletes exactly the entries whose last_accessed is earlier
\* than now - D days and leaves every other entry as it was
C19_CleanupDeletesExactly ==
    (last.op = "cleanup") =>
        table = SelectSeq(last.before, LAMBDA r :
                    ~EarlierThan(r.last_accessed, last.at, 24 * last.days))

\* a cleanup(D) that follows a cleanup(D) made at the same instant
SecondCleanup ==
    /\ last.op = "cleanup"
    /\ last.prev.op = "cleanup"
    /\ last.prev.days = last.days
    /\ last.prev.at = last.at

\* C20: a cleanup(D) that follows a cleanup(D) directly deletes no entry
C20_CleanupIdempotent ==
    SecondCleanup => (table = last.before /\ last.deleted = 0)

\* the second of two cleanups, the first of which deleted an entry
C20_Witness == SecondCleanup /\ last.prev.deleted > 0

\* C21: cleanup returns to its caller the number of entries it deleted, per
\* category
C21_CleanupReturnsCounts ==
    (last.op = "cleanup") =>
        last.result = Dict(("certificates" :> Len(last.before) - Len(table))
                           @@ ("searches" :> 0))

\* a value that a record has: it is not missing from the record
Present(v) == v \notin {NaN, NoValue, ""}

\* the identity of a record: lmk-key, or building-reference-number when
\* lmk-key is missing, or none
IdentityOf(row) ==
    IF Present(RowGet(row, "lmk-key")) THEN RowGet(row, "lmk-key")
    ELSE IF Present(RowGet(row, "building-reference-number"))
         THEN RowGet(row, "building-reference-number")
         ELSE NoValue

\* the identities of the records of the stored DataFrame
StoredIds == {IdentityOf(last.frame[i]) : i \in 1..Len(last.frame)} \ {NoValue}

\* C22: store files every record that has an identity under its lmk-key, or
\* under its building-reference-number when lmk-key is missing; a record that
\* has neither creates and changes no entry
C22_IdentityOrSkipped ==
    (last.op = "store") =>
        /\ \A id \in StoredIds :
               \E j \in 1..Len(table) :
                   /\ table[j].certificate_id = id
                   /\ table[j].property_type = last.ptype
                   /\ table[j].cached_at = SqlTimestamp(last.at)
        /\ \A j \in 1..Len(table) :
               table[j].certificate_id \in StoredIds \/ table[j] \in Range(last.before)
        /\ \A i \in 1..Len(last.before) :
               last.before[i].certificate_id \notin StoredIds
                   => last.before[i] \in Range(table)

-----------------------------------------------------------------------------
(* store_certificates with records that fail                               *)

certOpaque == ("lmk-key" :> "k1") @@ ("postcode" :> Opaque)
certOpaque2 == ("lmk-key" :> "k2") @@ ("postcode" :> Opaque)
certC == ("lmk-key" :> "k3") @@ ("postcode" :> "p1")

\* The calls of store_certificates whose records may fail
FailingInputs ==
    {<<DataFrameOf(<<certA>>), "domestic">>,
     <<DataFrameOf(<<certA2, certB>>), "non-domestic">>,
     <<DataFrameOf(<<certOpaque>>), "domestic">>,
     <<DataFrameOf(<<certB, certOpaque, certC>>), "domestic">>,
     <<DataFrameOf(<<certA, certOpaque2, certB>>), "non-domestic">>}

\* store_certificates on a database that refuses the writes of the rows errors
StoreFailing(frame, ptype, errors) ==
    /\ ops < MaxOps
    /\ errors \subseteq 1..Len(frame)
    /\ StoreStep(frame, ptype, errors)

StoreNext ==
    \/ \E d \in TickHours : Tick(d)
    \/ \E call \in FailingInputs, errors \in SUBSET (1..MaxTable) :
          StoreFailing(call[1], call[2], errors)

SpecStore == DbInit /\ [][StoreNext]_vars

\* row i of the stored DataFrame has an identity and its storing failed
Failed(i) ==
    /\ TruthyValue(CertificateId(last.frame[i]))
    /\ (~Serializable(last.frame[i]) \/ i \in last.errors)

\* row i of the stored DataFrame has an identity and its storing succeeded
Succeeded(i) ==
    /\ TruthyValue(CertificateId(last.frame[i]))
    /\ Serializable(last.frame[i])
    /\ i \notin last.errors

\* row i is the last row of its certificate_id to succeed
LastSucceeded(i) ==
    /\ Succeeded(i)
    /\ \A j \in (i + 1)..Len(last.frame) :
           Succeeded(j) => CertificateId(last.frame[j]) /= CertificateId(last.frame[i])

\* C23: when the storing of a record of a batch fails, store does not raise,
\* the other records of the batch are stored, and the failing record leaves
\* no entry and leaves an entry of its id as it was
C23_FailureSkipsOneRecord ==
    (last.op = "store" /\ \E i \in 1..Len(last.frame) : Failed(i)) =>
        /\ ~last.raised
        /\ \A i \in 1..Len(last.frame) :
               LastSucceeded(i) =>
                   RowsWithId(table, CertificateId(last.frame[i])) =
                       << [certificate_id |-> CertificateId(last.frame[i]),
                           property_type |-> last.ptype,
                           data |-> JsonDumps(last.frame[i]),
                           cached_at |-> SqlTimestamp(last.at),
                           last_accessed |-> SqlTimestamp(last.at)] >>
        /\ \A i \in 1..Len(last.frame) :
               Failed(i) =>
                   /\ \A j \in 1..Len(table) :
                          table[j].data.obj = last.frame[i] => table[j] \in Range(last.before)
                   /\ (\A j \in 1..Len(last.frame) :
                           Succeeded(j) =>
                               CertificateId(last.frame[j]) /= CertificateId(last.frame[i]))
                      => RowsWithId(table, CertificateId(last.frame[i])) =
                             RowsWithId(last.before, CertificateId(last.frame[i]))

\* a record that cannot be serialized failed between two records that were
\* stored, and the entry cached under its id is as it was
C23_Witness ==
    /\ last.op = "store"
    /\ Len(last.frame) = 3
    /\ Succeeded(1) /\ Failed(2) /\ Succeeded(3)
    /\ ~Serializable(last.frame[2])
    /\ Len(RowsWithId(last.before, CertificateId(last.frame[2]))) = 1
    /\ RowsWithId(table, CertificateId(last.frame[2])) =
           RowsWithId(last.before, CertificateId(last.frame[2]))
    /\ Len(table) = 3

\* C24: a database write error on a record inside store reaches the caller:
\* store does not return normally after it
C24_WriteErrorReachesCaller ==
    (last.op = "store" /\ \E i \in 1..Len(last.frame) :
         /\ i \in last.errors
         /\ TruthyValue(CertificateId(last.frame[i]))
         /\ Serializable(last.frame[i]))
    => last.raised

-----------------------------------------------------------------------------
(* More claims about the cache                                             *)

\* the number of rows of tbl that satisfy Test
CountRows(tbl, Test(_)) == Cardinality({i \in 1..Len(tbl) : Test(tbl[i])})

\* C25: what stats() returns agrees with direct enumeration of the cache:
\* the total is the number of entries, by_property_type maps every property
\* type present to the number of its entries, recent is the number of
\* entries cached within the 24 hours before the call returns, and no entry
\* changes.  It is stated of a call whose three SELECTs have read the same
\* table, no write of another client having changed it in between
C25_StatsMatchEnumeration ==
    (last.op = "stats" /\ last.same_table) =>
        /\ last.total = Len(table)
        /\ DOMAIN last.by_type = {table[i].property_type : i \in 1..Len(table)}
        /\ \A t \in DOMAIN last.by_type :
               last.by_type[t] = CountRows(table, LAMBDA r : r.property_type = t)
        /\ last.recent = CountRows(table, LAMBDA r : CachedWithin(r, last.at, 24))
        /\ table = last.before

\* stats over entries of two property types, one of them cached within the
\* last 24 hours and one not
C25_Witness ==
    /\ last.op = "stats"
    /\ last.same_table
    /\ last.total = 2
    /\ last.recent = 1
    /\ DOMAIN last.by_type = PropertyTypes

\* the allow-list of the contract
ClaimedKeys == {"postcode", "local-authority", "uprn"}

\* filters without the keys outside the allow-list
Restricted(filters) == [k \in (DOMAIN filters) \cap ClaimedKeys |-> filters[k]]

\* what get returns for filters when no key outside the allow-list is passed
RowsWithout(filters, ptype, hours) ==
    LET rows == SelectSeq(Candidates(table, ptype, hours),
                          LAMBDA r : RecordMatches(r, Restricted(filters)))
    IN  DataFrameOf([i \in 1..Len(rows) |-> rows[i].data.obj])

\* C26: a get with a filter key outside the allow-list returns what the same
\* call without that key returns, and fails only if that call fails
C26_UnknownFilterIgnored ==
    (/\ last.op = "get"
     /\ clock = last.at
     /\ ~((DOMAIN last.filters) \subseteq ClaimedKeys))
    => IF last.raised
       THEN /\ Restricted(last.filters) /= <<>>
            /\ \E i \in 1..Len(table) :
                   /\ table[i].property_type = last.ptype
                   /\ IsFresh(table[i], last.hours)
                   /\ ~table[i].data.strict
       ELSE last.rows = RowsWithout(last.filters, last.ptype, last.hours)

\* a get with a key outside the allow-list has returned entries
C26_Witness ==
    /\ last.op = "get"
    /\ ~((DOMAIN last.filters) \subseteq ClaimedKeys)
    /\ ~last.raised
    /\ last.rows /= <<>>

\* the certificate ids of the entries of tbl
IdsOf(tbl) == {tbl[i].certificate_id : i \in 1..Len(tbl)}

\* the step is the DELETE of a cleanup
CleanupStep ==
    /\ last'.op = "cleanup"
    /\ last'.before = table
    /\ ops' = ops + 1

\* C27: a step in which the cache loses a certificate_id, or has fewer
\* entries than before, is a cleanup: no step of store, get, get_by_id or
\* stats removes an entry
C27_OnlyCleanupRemoves ==
    [][(~(IdsOf(table) \subseteq IdsOf(table')) \/ Len(table') < Len(table))
           => CleanupStep]_vars

\* a store has overwritten an entry of a cache that holds another entry too
C27_Witness ==
    /\ last.op = "store"
    /\ Len(last.before) = 2
    /\ Len(table) = 2
    /\ table /= last.before
    /\ IdsOf(table) = IdsOf(last.before)

-----------------------------------------------------------------------------
(* The search of the client: EPCClient._search                             *)

\* client.py lines 84-86: all_data, the records of the pages ps in page order
AllDataMutant(ps) == IF ps = <<>> THEN <<>> ELSE ps[Len(ps)].data

RECURSIVE AllData(_)
AllData(ps) == IF ps = <<>> THEN <<>> ELSE ps[1].data \o AllData(Tail(ps))

\* client.py lines 76-97: the DataFrame that _search returns for the pages ps
SearchFrame(ps) ==
    IF ps = <<>> THEN DataFrameOf(<<>>)
    ELSE IF AllData(ps) /= <<>> THEN DataFrameOf(AllData(ps))
    ELSE DataFrameOf(<<>>)

\* what the caller of _search gets once the session is over
Observed == [frame |-> SearchFrame(pages), raised |-> raised]

\* what the caller gets when the API is reachable and has no record
NothingFound == [frame |-> DataFrameOf(<<>>), raised |-> FALSE]

\* the session is over and its first fetch failed
FirstFetchFailed ==
    /\ pc = "done"
    /\ Len(fetches) = 1
    /\ fetch_raised \/ (Len(results) = 1 /\ results[1] = None)

\* the session is over and its first response was an empty batch
FirstBatchEmpty ==
    /\ pc = "done"
    /\ Len(results) = 1
    /\ HasNoRecords(results[1])

\* C28: what a search returns after a first fetch that failed differs from
\* what it returns when the first response is an empty batch
C28_FailureDistinguishable ==
    /\ FirstBatchEmpty => Observed = NothingFound
    /\ FirstFetchFailed => Observed /= NothingFound

\* the number of pages yielded on a response that carried a cursor
PagesWithCursor ==
    Cardinality({i \in 1..Len(pages) : TruthyCursor(GetCursor(results[i]))})

\* C29: the 100 ms delay is made once after each yielded page whose response
\* carried a cursor, before the next fetch, and not in the cycle that ends
\* the session
C29_DelayBetweenPages ==
    /\ \A i \in 1..Len(delays) :
          /\ delays[i] = 100
          /\ i <= Len(pages)
          /\ TruthyCursor(GetCursor(results[i]))
    /\ (pc = "loop") => Len(delays) = Len(fetches)
    /\ (pc \in {"request", "process", "yielded", "done"})
          => Len(delays) = Len(fetches) - 1

\* a session of three fetches has ended: two pages with a cursor, each
\* followed by a delay, then a cycle without delay
C29_Witness ==
    /\ pc = "done"
    /\ Len(fetches) = 3
    /\ Len(delays) = 2
    /\ PagesWithCursor = 2

-----------------------------------------------------------------------------
(* A search of the CLI (commands.py) or of the web application (app.py)    *)

\* client.py lines 54-68: the filters of search_agricultural_buildings
AgriculturalFilters(local_authority, postcode) ==
    ("property-type" :> "Other") @@ ("built-form" :> "Detached")
    @@ (IF TruthyValue(postcode) THEN ("postcode" :> postcode) ELSE <<>>)
    @@ (IF TruthyValue(local_authority)
        THEN ("local-authority" :> local_authority) ELSE <<>>)

\* client.py lines 33-52: the endpoint of search_by_postcode,
\* search_by_local_authority and search_by_uprn
Endpoint(property_type) ==
    IF property_type = "domestic" THEN "domestic/search" ELSE "non-domestic/search"

\* commands.py lines 37-44: the command line of the search command, one of
\* postcode and local_authority being given (lines 47-49); use_cache_flag
\* tells whether --use-cache is on the command line
CliCommands ==
    {c \in [postcode : {NoValue, "GU5 0AA"}, local_authority : {NoValue, "Surrey"},
            property_type : PropertyTypes, agricultural : BOOLEAN,
            use_cache_flag : BOOLEAN] :
        TruthyValue(c.postcode) \/ TruthyValue(c.local_authority)}

\* commands.py line 43: the value of use_cache that search receives.  The
\* option is a flag whose default is True; a flag that is given carries the
\* opposite of its default, so the function gets False with --use-cache on
\* the command line and True without it
UseCache(flag_given) == ~flag_given

\* commands.py lines 55-65: the call of the client that the command makes and
\* the property type it stores under
CliCall(c) ==
    IF c.agricultural
    THEN [endpoint |-> "non-domestic/search",
          params |-> AgriculturalFilters(c.local_authority, c.postcode),
          ptype |-> IF c.property_type = "domestic" THEN "non-domestic"
                    ELSE c.property_type]
    ELSE IF TruthyValue(c.postcode)
    THEN [endpoint |-> Endpoint(c.property_type),
          params |-> ("postcode" :> c.postcode), ptype |-> c.property_type]
    ELSE [endpoint |-> Endpoint(c.property_type),
          params |-> ("local-authority" :> c.local_authority),
          ptype |-> c.property_type]

\* app.py lines 50-57: the body of a POST to /api/search, with a query
ApiRequests ==
    [search_type : {"postcode", "local_authority", "uprn"}, query : {"GU5 0AA"},
     property_type : PropertyTypes, agricultural : BOOLEAN]

\* app.py lines 59-71 and 84: the call of the client that the request makes
\* and the property type it stores under
ApiCall(q) ==
    IF q.search_type = "postcode" THEN
        IF q.agricultural
        THEN [endpoint |-> "non-domestic/search",
              params |-> AgriculturalFilters(NoValue, q.query),
              ptype |-> q.property_type]
        ELSE [endpoint |-> Endpoint(q.property_type),
              params |-> ("postcode" :> q.query), ptype |-> q.property_type]
    ELSE IF q.search_type = "local_authority" THEN
        IF q.agricultural
        THEN [endpoint |-> "non-domestic/search",
              params |-> AgriculturalFilters(q.query, NoValue),
              ptype |-> q.property_type]
        ELSE [endpoint |-> Endpoint(q.property_type),
              params |-> ("local-authority" :> q.query), ptype |-> q.property_type]
    ELSE [endpoint |-> Endpoint(q.property_type),
          params |-> ("uprn" :> q.query), ptype |-> q.property_type]

\* the caller starts the search: _search calls paginate with the default
\* cursor key (client.py line 76)
StartSearch(caller, call, use_cache) ==
    /\ pc = "idle"
    /\ last.op = "none"
    /\ Run(FreshSession(call.params, "search-after"))
    /\ last' = [op |-> "search", caller |-> caller, endpoint |-> call.endpoint,
                ptype |-> call.ptype, use_cache |-> use_cache, at |-> clock,
                prev |-> Summary(last)]
    /\ UNCHANGED <<clock, tz, ticks, ops, table>>
    /\ UNCHANGED <<normVars, other, running>>

\* commands.py lines 51-65: the search command
CliSearch(c) ==
    /\ pc = "idle"
    /\ StartSearch("cli", CliCall(c), UseCache(c.use_cache_flag))

\* app.py lines 46-71: api_search, which stores whatever it finds (line 84)
ApiSearch(q) ==
    /\ pc = "idle"
    /\ StartSearch("web", ApiCall(q), TRUE)

\* commands.py lines 67-69, app.py lines 75-81: no record was found, nothing
\* is stored
SearchFoundNothing ==
    /\ pc = "done"
    /\ last.op = "search"
    /\ SearchFrame(pages) = <<>>
    /\ last' = [op |-> "found_nothing", at |-> clock, prev |-> Summary(last)]
    /\ UNCHANGED <<clock, tz, ticks, ops, table>>
    /\ UNCHANGED <<pagVars, normVars, other, running>>

\* commands.py lines 71-72, app.py line 84: the records are stored under the
\* property type of the caller; the command stores them when use_cache is
\* true
SearchStores ==
    /\ pc = "done"
    /\ last.op = "search"
    /\ SearchFrame(pages) /= <<>>
    /\ last.use_cache
    /\ StoreStep(SearchFrame(pages), last.ptype, {})

\* commands.py lines 71-74: use_cache is false, the command reports the
\* records it found and stores none of them
SearchSkipsStore ==
    /\ pc = "done"
    /\ last.op = "search"
    /\ SearchFrame(pages) /= <<>>
    /\ ~last.use_cache
    /\ last' = [op |-> "not_stored", at |-> clock, before |-> table,
                frame |-> SearchFrame(pages), prev |-> Summary(last)]
    /\ UNCHANGED <<clock, tz, ticks, ops, table>>
    /\ UNCHANGED <<pagVars, normVars, other, running>>

SearchNext ==
    \/ \E c \in CliCommands : CliSearch(c)
    \/ \E q \in ApiRequests : ApiSearch(q)
    \/ BeginFetch
    \/ \E body \in Bodies : Get200(body)
    \/ Get429
    \/ \E status \in OtherStatuses : GetOtherStatus(status)
    \/ GetRequestException
    \/ EndWithoutPage
    \/ YieldPage
    \/ ResumeAndEnd
    \/ ResumeAndLoop
    \/ SearchFoundNothing
    \/ SearchStores
    \/ SearchSkipsStore

SpecSearch == DbInit /\ [][SearchNext]_vars

\* C30: when a search sends a request to the remote API, the cache has been
\* asked before (an operation on the cache has been made)
C30_CacheAskedFirst ==
    (last.op = "search" /\ Len(fetches) > 0) => ops > 0

-----------------------------------------------------------------------------
(* Reads of a cache that holds a payload which is not JSON                 *)

\* the data of row i is no longer the text that json.dumps wrote (the file
\* was written by another program, or damaged); the reads provide for it
\* with `except json.JSONDecodeError` (lines 128 and 160)
Corrupt(i) ==
    /\ i \in 1..Len(table)
    /\ \A j \in 1..Len(table) : Decodable(table[j].data)
    /\ table' = [table EXCEPT ![i].data = Malformed]
    /\ last' = [op |-> "corrupt", at |-> clock, before |-> table, row |-> i,
                prev |-> Summary(last)]
    /\ UNCHANGED <<clock, tz, ticks, ops>>
    /\ UNCHANGED <<pagVars, normVars, other, running>>

ReadNext ==
    \/ \E d \in TickHours : Tick(d)
    \/ \E call \in StoreInputs : Store(call[1], call[2])
    \/ \E i \in 1..MaxTable : Corrupt(i)
    \/ \E filters \in FilterSets, ptype \in PropertyTypes, hours \in AgeHours :
          Get(filters, ptype, hours)
    \/ \E id \in LookupIds, hours \in AgeHours : GetById(id, hours)
    \/ \E c \in BagToSet(running) : GetByIdUpdate(c)

SpecRead == DbInit /\ [][ReadNext]_vars

\* the rows of tbl that json.loads can read
DecodableRows(tbl) == SelectSeq(tbl, LAMBDA r : Decodable(r.data))

\* what the query of get selects among the readable rows of the table
ReadableSelection(filters, ptype, hours) ==
    LET rows == SelectSeq(Candidates(DecodableRows(table), ptype, hours),
                          LAMBDA r : MatchesFilters(r, filters))
    IN  DataFrameOf([i \in 1..Len(rows) |-> rows[i].data.obj])

\* every readable row is strict JSON, so that only the malformed payload can
\* make a read fail
OnlyMalformedUnreadable ==
    /\ \E i \in 1..Len(table) : ~Decodable(table[i].data)
    /\ \A i \in 1..Len(table) : Decodable(table[i].data) => table[i].data.strict

\* C31: a get on a cache with a malformed payload does not raise and returns
\* what it would return without that entry; a get_by_id of the id of a
\* malformed payload returns None
C31_MalformedSkipped ==
    /\ (last.op = "get" /\ clock = last.at /\ OnlyMalformedUnreadable)
          => /\ ~last.raised
             /\ last.rows = ReadableSelection(last.filters, last.ptype, last.hours)
    /\ (last.op = "get_by_id")
          => \A i \in 1..Len(last.before) :
                (last.before[i].certificate_id = last.id
                    /\ ~Decodable(last.before[i].data)) => last.record = None

-----------------------------------------------------------------------------
(* Claims about what reads leave in the cache, and about the timestamps    *)

\* the entry was stored and never looked up by id since
OnlyBulkRead(row) == row.last_accessed = row.cached_at

\* C32: get leaves the table as it was; an entry that was never looked up by
\* id is deleted by cleanup(D) once D days have passed since its store
C32_GetLeavesCacheAlone ==
    /\ last.op = "get" => table = last.before
    /\ last.op = "cleanup"
          => \A i \in 1..Len(last.before) :
                (/\ OnlyBulkRead(last.before[i])
                 /\ EarlierThan(last.before[i].cached_at, last.at, 24 * last.days))
                    => last.before[i] \notin Range(table)

\* C33: every entry was last accessed no earlier than it was stored, and
\* cleanup(D) keeps every entry stored less than D days ago
C33_AccessNotBeforeStore ==
    /\ \A i \in 1..Len(table) :
          Instant(table[i].cached_at) <= Instant(table[i].last_accessed)
    /\ last.op = "cleanup"
          => \A i \in 1..Len(last.before) :
                ~EarlierThan(last.before[i].cached_at, last.at, 24 * last.days)
                    => last.before[i] \in Range(table)

\* C34: the comparisons of get, get_by_id and cleanup between the stored
\* timestamp and the cutoff agree with the order of the two instants
C34_TextComparisonIsChronological ==
    /\ (last.op \in {"get", "get_by_id"} /\ clock = last.at)
          => \A i \in 1..Len(last.before) :
                IsFresh(last.before[i], last.hours)
                    <=> CachedWithin(last.before[i], last.at, last.hours)
    /\ (last.op = "cleanup" /\ clock = last.at)
          => \A i \in 1..Len(last.before) :
                IsExpired(last.before[i], last.days)
                    <=> EarlierThan(last.before[i].last_accessed, last.at, 24 * last.days)

-----------------------------------------------------------------------------
(* Claims about a search and what it stores                                *)

\* the property type of the endpoint
TypeOfEndpoint(endpoint) ==
    IF endpoint = "non-domestic/search" THEN "non-domestic" ELSE "domestic"

\* C35: the entries that a search stores carry the property type of the
\* endpoint the records came from
C35_StoredUnderEndpointType ==
    (last.op = "store" /\ last.prev.op = "search")
        => \A i \in 1..Len(table) :
              table[i].property_type = TypeOfEndpoint(last.prev.endpoint)

\* the number of rows of the frame that come before those of page p
Offset(p) == IF p = 1 THEN 0 ELSE pages[p - 1].total_retrieved

\* row is the record over the columns of the frame
IsRowOf(row, record) ==
    /\ DOMAIN record \subseteq DOMAIN row
    /\ \A c \in DOMAIN row : row[c] = (IF c \in DOMAIN record THEN record[c] ELSE NaN)

\* C36: once the session is over, _search returns without an error the
\* records of the yielded pages in page order, as many rows as the
\* total_retrieved of the last page, and an empty frame for no page
C36_SearchConcatenatesPages ==
    pc = "done"
        => /\ ~raised
           /\ pages = <<>> => SearchFrame(pages) = DataFrameOf(<<>>)
           /\ pages /= <<>>
                 => /\ Len(SearchFrame(pages)) = pages[Len(pages)].total_retrieved
                    /\ \A p \in 1..Len(pages) : \A k \in 1..Len(pages[p].data) :
                          /\ Offset(p) + k <= Len(SearchFrame(pages))
                          /\ IsRowOf(SearchFrame(pages)[Offset(p) + k], pages[p].data[k])

\* the third fetch of a session failed after two pages, and _search returns
\* the records of the two pages
C36_Witness ==
    /\ pc = "done"
    /\ Len(pages) = 2
    /\ Len(results) = 3
    /\ results[3] = None
    /\ Len(SearchFrame(pages)) = 2
    /\ ~raised

-----------------------------------------------------------------------------
(* The parameter mapping of the caller of paginate                         *)

\* C37: no step of a session changes the parameter mapping that the caller
\* passed to paginate
C37_CallerParamsUntouched ==
    [][pc \notin {"idle", "done"} => params' = params]_vars

\* a session is over whose second request carried the cursor, which the
\* mapping of the caller does not hold
C37_Witness ==
    /\ pc = "done"
    /\ Len(fetches) >= 2
    /\ search_after_key \in DOMAIN page_params
    /\ "size" \in DOMAIN page_params
    /\ params \in ParamSets

====
